---- MODULE Spec2Model ----
(***************************************************************************)
(* Bar chart race visualizer (src/main.py, src/app.py).                    *)
(*                                                                         *)
(* The dataset is a pandas DataFrame: here a sequence of rows, a row's     *)
(* position in the sequence standing for its index label.  A window (the   *)
(* result of df[df['dt'] == frame].nlargest(n, 'x')) is a sequence of row  *)
(* positions, so "is a row of the dataset" and "relative order in the      *)
(* dataset" are statements about positions.                                *)
(*                                                                         *)
(* Labels are texts: sequences of one-character strings, so that           *)
(* textwrap.fill and str.replace can be computed character by character.   *)
(***************************************************************************)
EXTENDS Integers, Sequences, FiniteSets, TLC

\* ------------------------------------------------------------------ bounds
\* Largest number of rows of a dataset.
MaxRows == 3
\* Largest rank depth tried by direct calls (the smallest is 0).
MaxN == 3
\* Largest number of rows of the dataset the script reads.
MaxScriptRows == 2
\* How many frames the display draws before the user closes the window.
MaxShown == 5
\* How many direct calls are made for one time key.
MaxCalls == 2
\* Largest number of rows of a dataset whose columns vary.
MaxColumnRows == 1
\* Largest number of rows of a dataset with long labels.
MaxLabelRows == 1
\* Largest number of rows of a dataset with a color column.
MaxColorRows == 2

\* ------------------------------------------------------------- input sets
Times == {2020, 2021}
Values == {50, 90}

USA == <<"U", "S", "A">>
Fiji == <<"F", "i", "j", "i">>
Labels == {USA, Fiji}

Rows == [dt : Times, label : Labels, x : Values]

RECURSIVE SeqsUpTo(_, _)
SeqsUpTo(S, k) ==
    IF k = 0 THEN {<<>>}
    ELSE LET shorter == SeqsUpTo(S, k - 1)
         IN  shorter \cup {Append(s, e) : s \in {t \in shorter : Len(t) = k - 1}, e \in S}

Datasets == SeqsUpTo(Rows, MaxRows)
ScriptDatasets == SeqsUpTo(Rows, MaxScriptRows)

\* ------------------------------------------------------------- sequences
Range(s) == {s[i] : i \in DOMAIN s}

RECURSIVE Ascending(_)
\* The row positions of a set, in ascending order (the order of the dataset).
Ascending(S) ==
    IF S = {} THEN <<>>
    ELSE LET first == CHOOSE i \in S : \A j \in S : i <= j
         IN  <<first>> \o Ascending(S \ {first})

Head_n(s, n) == SubSeq(s, 1, IF n < Len(s) THEN n ELSE Len(s))

Reverse(s) == [i \in 1..Len(s) |-> s[Len(s) + 1 - i]]

RECURSIVE Unique(_)
\* pandas Series.unique / a categorical axis: the distinct elements in order
\* of first occurrence.
Unique(s) ==
    IF s = <<>> THEN <<>>
    ELSE LET front == Unique(SubSeq(s, 1, Len(s) - 1))
             last == s[Len(s)]
         IN  IF last \in Range(front) THEN front ELSE Append(front, last)

\* ------------------------------------------------------- pandas selection
VARIABLES
    df,              \* the dataset read from the CSV file
    n_largest,       \* the rank depth N given to the call
    iconFiles,       \* the labels whose <label>.png exists in the icon folder
    columns,         \* the names of the columns of the dataset
    quicksort_ties   \* how the library's default (unstable) sort leaves ties

\* nlargest has two paths.  With n < len(frame) it selects with keep='first'
\* and orders with a stable mergesort.  With n >= len(frame) it returns
\* sort_values(ascending=False).head(n), and sort_values sorts with the
\* default kind='quicksort', which is not stable: rows of equal value come
\* out in input order or not.  The order is a function of the input, fixed
\* for one build of the libraries.
TieOrders == {"input", "reversed"}

\* Mutant: the boolean mask is lost and every row is kept.
frame_data_unfiltered(d, frame) == [i \in DOMAIN d |-> i]

\* df[df['dt'] == frame]: the positions of the rows of time key frame.
frame_data(d, frame) == Ascending({i \in DOMAIN d : d[i].dt = frame})

\* One step of a descending sort of row positions by 'x': pos goes behind
\* every row that stays in front of it.  ties = "input" is a stable sort.
InsertDesc(d, sorted, pos, ties) ==
    LET InFront(e) == IF ties = "input" THEN d[e].x >= d[pos].x ELSE d[e].x > d[pos].x
        k == Cardinality({j \in DOMAIN sorted : InFront(sorted[j])})
    IN  SubSeq(sorted, 1, k) \o <<pos>> \o SubSeq(sorted, k + 1, Len(sorted))

RECURSIVE SortDesc(_, _, _)
SortDesc(d, idxs, ties) ==
    IF idxs = <<>> THEN <<>>
    ELSE InsertDesc(d, SortDesc(d, SubSeq(idxs, 1, Len(idxs) - 1), ties),
                    idxs[Len(idxs)], ties)

\* Series.sort_values(ascending=False) with the default kind='quicksort'.
sort_values(d, idxs) == SortDesc(d, idxs, quicksort_ties)

\* keep='first': the n-th largest value, the rows not below it in input
\* order, a stable (mergesort) descending sort of these, and the first n.
NLargestFast(d, idxs, n) ==
    LET kth_val == d[SortDesc(d, idxs, "input")[n]].x
        ns == Ascending({i \in Range(idxs) : d[i].x >= kth_val})
    IN  Head_n(SortDesc(d, ns, "input"), n)

\* Mutant: nsmallest in place of nlargest.
nsmallest(d, idxs, n) ==
    IF n <= 0 THEN <<>> ELSE Head_n(Reverse(SortDesc(d, idxs, "input")), n)

\* Mutant: one row too few (an off-by-one in the cut).
nlargest_one_short(d, idxs, n) ==
    IF n <= 0 THEN <<>> ELSE Head_n(SortDesc(d, idxs, "input"), n - 1)

\* DataFrame.nlargest(n, 'x') on the rows idxs of d.
nlargest(d, idxs, n) ==
    IF n <= 0 THEN <<>>
    ELSE IF n >= Len(idxs) THEN Head_n(sort_values(d, idxs), n)
    ELSE NLargestFast(d, idxs, n)

\* top_items of draw_frame and of animate.
top_items(d, frame, n) == nlargest(d, frame_data(d, frame), n)

\* ------------------------------------------------------------------ text
\* textwrap.fill(label, width) with TextWrapper's defaults (replace_whitespace,
\* drop_whitespace, break_long_words, break_on_hyphens), for texts of letters,
\* spaces, hyphens and line breaks (no tabs, digits or punctuation).
WrapWidth == 18

IsSpace(c) == c \in {" ", "\n"}
IsHyphen(c) == c = "-"
IsLetter(c) == ~IsSpace(c) /\ ~IsHyphen(c)
LetterAt(t, i) == i \in DOMAIN t /\ IsLetter(t[i])
HyphenAt(t, i) == i \in DOMAIN t /\ IsHyphen(t[i])
AllSpace(t) == \A i \in DOMAIN t : IsSpace(t[i])

\* TextWrapper._munge_whitespace: every whitespace character becomes a space.
munge_whitespace(t) == [i \in DOMAIN t |-> IF IsSpace(t[i]) THEN " " ELSE t[i]]

RECURSIVE SpaceRunEnd(_, _)
\* The last position of the run of whitespace that starts at p.
SpaceRunEnd(t, p) ==
    IF p + 1 \in DOMAIN t /\ IsSpace(t[p + 1]) THEN SpaceRunEnd(t, p + 1) ELSE p

RECURSIVE HyphenRunEnd(_, _)
\* The last position of the run of hyphens that starts at p.
HyphenRunEnd(t, p) ==
    IF HyphenAt(t, p + 1) THEN HyphenRunEnd(t, p + 1) ELSE p

\* wordsep_re, "-{2,}(?=\w)": two or more hyphens at p followed by a letter.
DashesAt(t, p) ==
    HyphenAt(t, p) /\ HyphenAt(t, p + 1) /\ LetterAt(t, HyphenRunEnd(t, p) + 1)

\* wordsep_re, the hyphenated word: the word read so far ends at q, a hyphen
\* follows, two letters (or letter-hyphen-letter) precede it and
\* letter, optional hyphen, letter follow it.
HyphenBreakAfter(t, q) ==
    /\ HyphenAt(t, q + 1)
    /\ \/ LetterAt(t, q - 1) /\ LetterAt(t, q)
       \/ LetterAt(t, q - 2) /\ HyphenAt(t, q - 1) /\ LetterAt(t, q)
    /\ LetterAt(t, q + 2)
    /\ \/ LetterAt(t, q + 3)
       \/ HyphenAt(t, q + 3) /\ LetterAt(t, q + 4)

RECURSIVE WordEnd(_, _)
\* wordsep_re, the word alternative (a lazy match): the word that holds
\* position q ends at the first place where one of its endings matches.
WordEnd(t, q) ==
    IF HyphenBreakAfter(t, q) THEN q + 1
    ELSE IF q = Len(t) \/ IsSpace(t[q + 1]) THEN q
    ELSE IF LetterAt(t, q) /\ DashesAt(t, q + 1) THEN q
    ELSE WordEnd(t, q + 1)

ChunkEnd(t, p) ==
    IF IsSpace(t[p]) THEN SpaceRunEnd(t, p)
    ELSE IF LetterAt(t, p - 1) /\ DashesAt(t, p) THEN HyphenRunEnd(t, p)
    ELSE WordEnd(t, p)

RECURSIVE SplitFrom(_, _)
SplitFrom(t, p) ==
    IF p > Len(t) THEN <<>>
    ELSE <<SubSeq(t, p, ChunkEnd(t, p))>> \o SplitFrom(t, ChunkEnd(t, p) + 1)

\* TextWrapper._split_chunks
split_chunks(t) == SplitFrom(munge_whitespace(t), 1)

RECURSIVE Concat(_)
Concat(ss) == IF ss = <<>> THEN <<>> ELSE Head(ss) \o Concat(Tail(ss))

RECURSIVE Fitting(_, _)
\* How many leading chunks fit into room characters.
Fitting(chunks, room) ==
    IF chunks = <<>> \/ Len(Head(chunks)) > room THEN 0
    ELSE 1 + Fitting(Tail(chunks), room - Len(Head(chunks)))

RECURSIVE LastHyphen(_, _)
\* chunk.rfind('-', 0, space_left), 1-based; 0 when there is none.
LastHyphen(chunk, upto) ==
    IF upto <= 0 THEN 0
    ELSE IF HyphenAt(chunk, upto) THEN upto
    ELSE LastHyphen(chunk, upto - 1)

\* TextWrapper._handle_long_word: where a chunk longer than the width is cut.
LongWordCut(chunk, space_left) ==
    LET h == LastHyphen(chunk, space_left)
    IN  IF Len(chunk) > space_left /\ h > 1
           /\ \E i \in 1..(h - 1) : ~IsHyphen(chunk[i])
        THEN h ELSE space_left

RECURSIVE WrapChunks(_, _, _)
\* TextWrapper._wrap_chunks: the lines made of the chunks still to place.
WrapChunks(chunks, lines, width) ==
    IF chunks = <<>> THEN lines
    ELSE LET todo == IF AllSpace(Head(chunks)) /\ lines # <<>> THEN Tail(chunks) ELSE chunks
             k == Fitting(todo, width)
             fit == SubSeq(todo, 1, k)
             rest == SubSeq(todo, k + 1, Len(todo))
             long == rest # <<>> /\ Len(Head(rest)) > width
             cut == IF long THEN LongWordCut(Head(rest), width - Len(Concat(fit))) ELSE 0
             cur == IF long THEN Append(fit, SubSeq(Head(rest), 1, cut)) ELSE fit
             left == IF long
                     THEN <<SubSeq(Head(rest), cut + 1, Len(Head(rest)))>> \o Tail(rest)
                     ELSE rest
             kept == IF cur # <<>> /\ AllSpace(cur[Len(cur)])
                     THEN SubSeq(cur, 1, Len(cur) - 1) ELSE cur
         IN  WrapChunks(left, IF kept # <<>> THEN Append(lines, Concat(kept)) ELSE lines, width)

RECURSIVE JoinLines(_)
\* "\n".join(lines)
JoinLines(lines) ==
    IF lines = <<>> THEN <<>>
    ELSE IF Len(lines) = 1 THEN lines[1]
    ELSE lines[1] \o <<"\n">> \o JoinLines(Tail(lines))

\* textwrap.fill(text, width)
fill(t, width) == JoinLines(WrapChunks(split_chunks(t), <<>>, width))

\* str.replace('\n', ' ')
replace_newline(t) == [i \in DOMAIN t |-> IF t[i] = "\n" THEN " " ELSE t[i]]

\* --------------------------------------------------------------- drawing
\* load_icons: the keys of the icons mapping (the images are not modelled):
\* the labels of the dataset whose png file exists.
load_icons(d, files) == {d[i].label : i \in DOMAIN d} \cap files

\* The y tick labels after the bars are drawn: a categorical axis has one
\* tick for each distinct label, in order of first appearance (an empty
\* window is taken to leave no tick).
yticklabels(d, top) == Unique([i \in DOMAIN top |-> d[top[i]].label])

\* wrap_labels: every tick label becomes textwrap.fill(label, width).
wrap_labels(ticks, width) == [i \in DOMAIN ticks |-> fill(ticks[i], width)]

\* Mutant: one label without icon leaves the whole frame without images.
add_icons_all_or_nothing(ticks, keys) ==
    IF \A i \in DOMAIN ticks : replace_newline(ticks[i]) \in keys
    THEN DOMAIN ticks ELSE {}

\* add_icons: the ticks that get an image: those whose text, line breaks
\* replaced by spaces, is a key of icons.
add_icons(ticks, keys) == {i \in DOMAIN ticks : replace_newline(ticks[i]) \in keys}

\* An Axes after ax.clear().
ClearAxes == [frame |-> {}, bars |-> <<>>, colors |-> <<>>, ticks |-> <<>>, texts |-> <<>>,
              images |-> {}]

\* The colors argument of draw_frame: <<>> for None, <<list>> for a list.
NoColors == <<>>

\* The color of each of k bars.  With colors=None seaborn colors the bars
\* from the palette.  With a list, barh gives the i-th bar the i-th color,
\* starting over when the list is shorter than the bars, and no color at all
\* when it is empty.
bar_colors(colors, k) ==
    IF colors = NoColors THEN [i \in 1..k |-> "palette"]
    ELSE LET list == colors[1]
         IN  [i \in 1..k |-> IF list = <<>> THEN "none"
                              ELSE list[((i - 1) % Len(list)) + 1]]

\* draw_frame: the Axes it leaves: the frame texts (setup_dt), one bar for
\* each row of top_items, the wrapped tick labels, one value text for each
\* row, and the images of add_icons.
draw_frame(d, frame, keys, n, colors) ==
    LET top == top_items(d, frame, n)
        ticks == wrap_labels(yticklabels(d, top), WrapWidth)
    IN  [frame |-> {frame},
         bars |-> top,
         colors |-> bar_colors(colors, Len(top)),
         ticks |-> ticks,
         texts |-> [i \in DOMAIN top |-> d[top[i]].x],
         images |-> add_icons(ticks, keys)]

\* Mutant: the selection takes its rows out of the dataset.
df_consumed(d, frame, n) ==
    LET pos == Ascending(DOMAIN d \ Range(top_items(d, frame, n)))
    IN  [j \in DOMAIN pos |-> d[pos[j]]]

\* The dataset after a call of draw_frame or animate: boolean indexing and
\* nlargest build new frames, so the dataset the caller holds is untouched.
df_after(d, frame, n) == d

\* Mutant: the colors of the whole frame, in the order of the dataset.
frame_colors(d, frame, n) ==
    LET rows == frame_data(d, frame)
    IN  [i \in DOMAIN rows |-> d[rows[i]].color]

\* top_items['color'].tolist(), of animate's own top_items.
top_colors(d, frame, n) ==
    LET top == top_items(d, frame, n)
    IN  [i \in DOMAIN top |-> d[top[i]].color]

\* animate (the closure of save_animation and of show_animation): its own
\* top_items yields the colors when the dataset has a 'color' column (None
\* when it has not), and draw_frame, which selects again, makes the Axes.
animate(d, frame, keys, n) ==
    draw_frame(d, frame, keys, n,
               IF "color" \in columns THEN <<top_colors(d, frame, n)>> ELSE NoColors)

\* ---------------------------------------------------------------- columns
\* The columns the code reads by name: 'dt', 'label' and 'x' in every path,
\* 'color' only when the dataset has it.
Required == {"dt", "label", "x"}
Columns == Required \cup {"color"}

\* The exception a call of draw_frame raises on a dataset with the columns
\* cols ("none": it returns).  df['dt'] is read first, then nlargest reads
\* 'x' (it looks the column up before it looks at n or at the rows), then
\* the bars read 'label': top_items['label'] for barh when colors are
\* given, and else seaborn, which raises a ValueError for a name that is no
\* column of data.
draw_frame_error(cols, colors_given) ==
    IF "dt" \notin cols THEN "KeyError: 'dt'"
    ELSE IF "x" \notin cols THEN "KeyError: 'x'"
    ELSE IF "label" \notin cols
         THEN IF colors_given THEN "KeyError: 'label'" ELSE "ValueError: 'label'"
    ELSE "none"

\* The exception a call of animate raises: its own selection reads 'dt' and
\* 'x' before draw_frame is called, with colors when there is a 'color' column.
animate_error(cols) == draw_frame_error(cols, "color" \in cols)

\* The Axes a call of draw_frame leaves when it raises: ax.clear(),
\* setup_plotstyle and setup_dt have run, no bar is drawn.
draw_frame_failed(frame) == [ClearAxes EXCEPT !.frame = {frame}]

\* The Axes a call of animate leaves when it raises: untouched if its own
\* selection raised, and else the one the failed draw_frame leaves.
animate_failed(a, cols, frame) ==
    IF {"dt", "x"} \subseteq cols THEN draw_frame_failed(frame) ELSE a

\* ------------------------------------------------------------------ state
VARIABLES
    icons,      \* the keys of the icons mapping ({} before load_icons)
    frames,     \* the frame sequence of the script (<<>> before it is computed)
    ax,         \* the Axes of the caller: of a direct call, or of show_animation
    err,        \* the error the last direct call raised ("none": it returned)
    hist,       \* for each time key, the windows the direct calls drew for it, in order
    pc,         \* where the script's main process is
    shown,      \* the time keys show_animation's animate was called with, in order
    frame_seq,  \* show_animation's frame iterator: the frames still to draw
    save,       \* the child process running save_animation
    exitcode    \* the exit status of the script's main process ("running" before)

vars == <<df, n_largest, iconFiles, columns, quicksort_ties, icons, frames, ax, err,
          hist, pc, shown, frame_seq, save, exitcode>>

inputs == <<df, n_largest, iconFiles, columns, quicksort_ties>>

\* n_largest's default in save_animation and show_animation.
DefaultN == 10

NoChild == [pc |-> "none", df |-> <<>>, frames |-> <<>>, icons |-> {}, i |-> 0,
            ax |-> ClearAxes, written |-> <<>>, exitcode |-> "running", stderr |-> ""]

Idle ==
    /\ icons = {} /\ frames = <<>> /\ ax = ClearAxes /\ err = "none"
    /\ hist = [t \in Times |-> <<>>]
    /\ shown = <<>> /\ frame_seq = <<>> /\ save = NoChild /\ exitcode = "running"

\* ------------------------------------------- direct calls of draw_frame
\* The caller holds a dataset and a rank depth, and passes an empty icons
\* mapping (no icon folder is read).
InitDraw ==
    /\ df \in Datasets
    /\ n_largest \in 0..MaxN
    /\ iconFiles = {}
    /\ columns = Required
    /\ quicksort_ties \in TieOrders
    /\ pc = "direct"
    /\ Idle

\* draw_frame(ax, df, title, frame, icons, n_largest): no check of n_largest
\* precedes the selection, and the call returns for every rank depth.  On a
\* dataset without one of the columns it reads, the call raises where it
\* reads the column, after the Axes was cleared.
DrawFrame(frame) ==
    /\ pc = "direct"
    /\ Len(hist[frame]) < MaxCalls
    /\ IF draw_frame_error(columns, FALSE) = "none"
       THEN /\ ax' = draw_frame(df, frame, icons, n_largest, NoColors)
            /\ df' = df_after(df, frame, n_largest)
            /\ err' = "none"
            /\ hist' = [hist EXCEPT ![frame] = Append(@, ax'.bars)]
       ELSE /\ ax' = draw_frame_failed(frame)
            /\ err' = draw_frame_error(columns, FALSE)
            /\ UNCHANGED <<df, hist>>
    /\ UNCHANGED <<n_largest, iconFiles, columns, quicksort_ties, icons, frames, pc,
                   shown, frame_seq, save, exitcode>>

NextDraw == \E frame \in Times : DrawFrame(frame)

SpecDraw == InitDraw /\ [][NextDraw]_vars

\* -------------------------------------------------- the script (__main__)
\* df = pd.read_csv(data_path): the dataset is read when the script starts.
\* Neither call passes n_largest, so both paths select with the default.
InitScript ==
    /\ df \in ScriptDatasets
    /\ n_largest = DefaultN
    /\ iconFiles \in SUBSET Labels
    /\ columns = Required
    /\ quicksort_ties \in TieOrders
    /\ pc = "start"
    /\ Idle

\* Mutant: the time column as it is, not its distinct values.
all_dt(d) == [i \in DOMAIN d |-> d[i].dt]

\* df['dt'].unique().tolist()
unique_dt(d) == Unique([i \in DOMAIN d |-> d[i].dt])

\* The exception of the two loading lines of __main__ and of the form:
\* df['dt'] is read for the frames, then load_icons reads df['label'].
load_error(cols, reads_label) ==
    IF "dt" \notin cols THEN "KeyError: 'dt'"
    ELSE IF reads_label /\ "label" \notin cols THEN "KeyError: 'label'"
    ELSE "none"

\* frames = df['dt'].unique().tolist(); icons = load_icons(df, icons_path, ...)
\* An exception of either line ends the script (traceback, exit status 1)
\* before the child process is made.
MainLoad ==
    /\ pc = "start"
    /\ frames' = IF "dt" \in columns THEN unique_dt(df) ELSE frames
    /\ IF load_error(columns, TRUE) = "none"
       THEN /\ icons' = load_icons(df, iconFiles)
            /\ pc' = "loaded"
            /\ UNCHANGED <<err, exitcode>>
       ELSE /\ err' = load_error(columns, TRUE)
            /\ pc' = "exit"
            /\ exitcode' = "1"
            /\ UNCHANGED icons
    /\ UNCHANGED <<inputs, ax, hist, shown, frame_seq, save>>

\* Mutant: the child is handed the frame list in reverse.
child_args_reversed(d, fs, keys) ==
    [NoChild EXCEPT !.pc = "start", !.df = d, !.frames = Reverse(fs), !.icons = keys]

\* What Process(target=save_animation, args=(df, frames, icons, ...)).start()
\* hands to the child: its own copies of the arguments.
child_args(d, fs, keys) ==
    [NoChild EXCEPT !.pc = "start", !.df = d, !.frames = fs, !.icons = keys]

\* p = Process(...); p.start()
MainSpawn ==
    /\ pc = "loaded"
    /\ save' = child_args(df, frames, icons)
    /\ pc' = "show"
    /\ UNCHANGED <<inputs, icons, frames, ax, err, hist, shown, frame_seq, exitcode>>

\* FuncAnimation without init_func: Animation._init_draw draws the first item
\* of the frame sequence (nothing when the sequence is empty).
init_draw(a, d, fs, keys, n) == IF fs = <<>> THEN a ELSE animate(d, fs[1], keys, n)

\* The exception of _init_draw: the one of animate, when there is a frame.
init_draw_error(cols, fs) == IF fs = <<>> THEN "none" ELSE animate_error(cols)

\* Mutant: the timer is started whether the first draw raised or not.
after_init_draw_timer_started(e) == "showing"

\* Animation._start: the first draw callback is disconnected, _init_draw is
\* called, and only then is the timer of the frame steps started: when
\* _init_draw raises, the window stays open and no frame step ever comes.
after_init_draw(e) == IF e = "none" THEN "showing" ELSE "stalled"

\* show_animation: FuncAnimation(fig, animate, frames=frames, interval=fps)
\* and plt.show(): the animation starts with _init_draw.
ShowStart ==
    /\ pc = "show"
    /\ IF init_draw_error(columns, frames) = "none"
       THEN /\ ax' = init_draw(ax, df, frames, icons, n_largest)
            /\ df' = IF frames = <<>> THEN df ELSE df_after(df, frames[1], n_largest)
            /\ frame_seq' = frames
            /\ UNCHANGED err
       ELSE /\ ax' = animate_failed(ax, columns, frames[1])
            /\ err' = init_draw_error(columns, frames)
            /\ UNCHANGED <<df, frame_seq>>
    /\ shown' = IF frames = <<>> THEN shown ELSE Append(shown, frames[1])
    /\ pc' = after_init_draw(init_draw_error(columns, frames))
    /\ UNCHANGED <<n_largest, iconFiles, columns, quicksort_ties, icons, frames, hist,
                   save, exitcode>>

\* One timer event of the display (TimedAnimation._step): the next frame is
\* drawn; when the iterator is exhausted, repeat (True by default) draws the
\* first frame again with _init_draw and restarts the iterator.
ShowStep ==
    /\ pc = "showing"
    /\ Len(shown) < MaxShown
    /\ frames # <<>>
    /\ LET f == IF frame_seq # <<>> THEN Head(frame_seq) ELSE frames[1]
       IN  /\ shown' = Append(shown, f)
           /\ IF animate_error(columns) = "none"
              THEN /\ ax' = IF frame_seq # <<>> THEN animate(df, f, icons, n_largest)
                             ELSE init_draw(ax, df, frames, icons, n_largest)
                   /\ df' = df_after(df, f, n_largest)
                   /\ frame_seq' = IF frame_seq # <<>> THEN Tail(frame_seq) ELSE frames
                   /\ UNCHANGED err
              ELSE /\ ax' = animate_failed(ax, columns, f)
                   /\ err' = animate_error(columns)
                   /\ UNCHANGED <<df, frame_seq>>
    /\ UNCHANGED <<n_largest, iconFiles, columns, quicksort_ties, icons, frames, hist,
                   pc, save, exitcode>>

\* The user closes the window: plt.show() and show_animation return.
ShowClose ==
    /\ pc \in {"showing", "stalled"}
    /\ pc' = "join"
    /\ UNCHANGED <<inputs, icons, frames, ax, err, hist, shown, frame_seq, save, exitcode>>

\* p.join(): waits for the child to end, whatever its exit code, and the
\* script then ends normally.
MainJoin ==
    /\ pc = "join"
    /\ save.pc \in {"done", "failed"}
    /\ pc' = "exit"
    /\ exitcode' = "0"
    /\ UNCHANGED <<inputs, icons, frames, ax, err, hist, shown, frame_seq, save>>

\* save_animation in the child, up to the start of the frame loop of
\* anim.save: the figure, the FuncAnimation, the writer, and _init_draw.
\* When _init_draw raises, no frame was grabbed; the exception leaves
\* save_animation (the child prints the traceback and exits with code 1).
SaveStart ==
    /\ save.pc = "start"
    /\ save' = IF init_draw_error(columns, save.frames) = "none"
               THEN [save EXCEPT
                       !.pc = "saving",
                       !.i = 1,
                       !.ax = init_draw(save.ax, save.df, save.frames, save.icons, n_largest),
                       !.df = IF save.frames = <<>> THEN save.df
                              ELSE df_after(save.df, save.frames[1], n_largest)]
               ELSE [save EXCEPT
                       !.pc = "failed",
                       !.exitcode = "1",
                       !.stderr = init_draw_error(columns, save.frames),
                       !.ax = animate_failed(save.ax, columns, save.frames[1])]
    /\ UNCHANGED <<inputs, icons, frames, ax, err, hist, pc, shown, frame_seq, exitcode>>

\* anim.save, one turn of the loop over new_saved_frame_seq(): the frame is
\* drawn (animate) and the writer grabs it.
SaveFrame ==
    /\ save.pc = "saving"
    /\ save.i <= Len(save.frames)
    /\ LET f == save.frames[save.i]
           drawn == animate(save.df, f, save.icons, n_largest)
       IN  save' = [save EXCEPT
                      !.i = @ + 1,
                      !.ax = drawn,
                      !.df = df_after(save.df, f, n_largest),
                      !.written = Append(@, [frame |-> f, bars |-> drawn.bars])]
    /\ UNCHANGED <<inputs, icons, frames, ax, err, hist, pc, shown, frame_seq, exitcode>>

\* anim.save returns after the last frame; save_animation returns and the
\* child exits with code 0.
SaveFinish ==
    /\ save.pc = "saving"
    /\ save.i > Len(save.frames)
    /\ save' = [save EXCEPT !.pc = "done", !.exitcode = "0"]
    /\ UNCHANGED <<inputs, icons, frames, ax, err, hist, pc, shown, frame_seq, exitcode>>

\* The writer fails (ffmpeg missing or failing): the exception leaves
\* save_animation, multiprocessing prints the traceback and the child exits
\* with code 1.
SaveFail ==
    /\ save.pc \in {"start", "saving"}
    /\ save' = [save EXCEPT !.pc = "failed", !.exitcode = "1", !.stderr = "Traceback"]
    /\ UNCHANGED <<inputs, icons, frames, ax, err, hist, pc, shown, frame_seq, exitcode>>

MainStep == MainLoad \/ MainSpawn \/ ShowStart \/ ShowStep \/ ShowClose \/ MainJoin

SaveStep == SaveStart \/ SaveFrame \/ SaveFinish \/ SaveFail

NextScript == MainStep \/ SaveStep

SpecScript == InitScript /\ [][NextScript]_vars

\* ------------------------------------------------------- the form (app.py)
\* The smallest value of the form's "Bars Displayed" slider.
MinBars == 5

\* CSV upload: df = pd.read_csv(uploaded_csv); frames = df['dt'].unique()
\* outside any try: a KeyError ends the run of the page there (Streamlit
\* shows the exception, and the button further down is never reached).  The
\* icons mapping is keyed by the names of the uploaded png files.
FormUpload ==
    /\ pc = "form"
    /\ IF load_error(columns, FALSE) = "none"
       THEN /\ frames' = unique_dt(df)
            /\ icons' = iconFiles
            /\ pc' = "uploaded"
            /\ UNCHANGED err
       ELSE /\ err' = load_error(columns, FALSE)
            /\ pc' = "crashed"
            /\ UNCHANGED <<frames, icons>>
    /\ UNCHANGED <<inputs, ax, hist, shown, frame_seq, save, exitcode>>

\* "Generate & Download Animation": save_animation(df=df, frames=frames,
\* icons=icons, ..., n_largest=n_largest, ...) is called inside the try.
FormGenerate ==
    /\ pc = "uploaded"
    /\ save' = child_args(df, frames, icons)
    /\ pc' = "generating"
    /\ UNCHANGED <<inputs, icons, frames, ax, err, hist, shown, frame_seq, exitcode>>

\* save_animation returned: st.success, the preview and the download button.
FormSuccess ==
    /\ pc = "generating"
    /\ save.pc = "done"
    /\ pc' = "generated"
    /\ UNCHANGED <<inputs, icons, frames, ax, err, hist, shown, frame_seq, save, exitcode>>

\* except Exception as e: st.error(f"Error: {e}")
FormError ==
    /\ pc = "generating"
    /\ save.pc = "failed"
    /\ err' = save.stderr
    /\ pc' = "form_error"
    /\ UNCHANGED <<inputs, icons, frames, ax, hist, shown, frame_seq, save, exitcode>>

FormStep == FormUpload \/ FormGenerate \/ FormSuccess \/ FormError

\* ------------------------------------------- datasets of any set of columns
Colors == {"red", "blue"}

ColorRows == [dt : Times, label : Labels, x : Values, color : Colors]

\* A row of a dataset that has the columns cols only.
Project(row, cols) == [c \in cols |-> row[c]]

ColumnDatasets(cols) == SeqsUpTo({Project(r, cols) : r \in ColorRows}, MaxColumnRows)

\* The three ways into the selection: a direct call of draw_frame, the
\* script, and the form.
Entries == {"direct", "start", "form"}

\* The rank depths of an entry: any for a direct call, the default in the
\* script, a value of the slider in the form.
RankDepths(entry) ==
    IF entry = "direct" THEN {0, 1}
    ELSE IF entry = "start" THEN {DefaultN}
    ELSE {MinBars, DefaultN}

\* A CSV file with any of the columns, read by any of the entries.
InitColumns ==
    /\ columns \in SUBSET Columns
    /\ df \in ColumnDatasets(columns)
    /\ pc \in Entries
    /\ n_largest \in RankDepths(pc)
    /\ iconFiles \in {{}, {USA}}
    /\ quicksort_ties \in TieOrders
    /\ Idle

NextColumns == NextDraw \/ MainStep \/ SaveStep \/ FormStep

SpecColumns == InitColumns /\ [][NextColumns]_vars

\* ------------------------------------------ direct calls with long labels
\* "United States of America": longer than the width, broken at a space.
UnitedStatesOfAmerica ==
    <<"U", "n", "i", "t", "e", "d", " ", "S", "t", "a", "t", "e", "s", " ",
      "o", "f", " ", "A", "m", "e", "r", "i", "c", "a">>

\* "Internationalization": one word longer than the width.
Internationalization ==
    <<"I", "n", "t", "e", "r", "n", "a", "t", "i", "o", "n", "a", "l", "i",
      "z", "a", "t", "i", "o", "n">>

\* "Saint-Vincent-and-the-Grenadines": longer than the width, with hyphens.
SaintVincent ==
    <<"S", "a", "i", "n", "t", "-", "V", "i", "n", "c", "e", "n", "t", "-",
      "a", "n", "d", "-", "t", "h", "e", "-", "G", "r", "e", "n", "a", "d",
      "i", "n", "e", "s">>

\* "Democratic  Republic": longer than the width, with two spaces between its words.
DemocraticRepublic ==
    <<"D", "e", "m", "o", "c", "r", "a", "t", "i", "c", " ", " ", "R", "e",
      "p", "u", "b", "l", "i", "c">>

LongLabels == {USA, UnitedStatesOfAmerica, Internationalization, SaintVincent,
               DemocraticRepublic}

LabelDatasets == SeqsUpTo([dt : Times, label : LongLabels, x : Values], MaxLabelRows)

\* The caller read the dataset and the icons as __main__ does (load_icons),
\* and calls draw_frame with them.
InitLabels ==
    /\ df \in LabelDatasets
    /\ n_largest = DefaultN
    /\ iconFiles \in SUBSET LongLabels
    /\ columns = Required
    /\ quicksort_ties \in TieOrders
    /\ pc = "direct"
    /\ icons = load_icons(df, iconFiles)
    /\ frames = <<>> /\ ax = ClearAxes /\ err = "none"
    /\ hist = [t \in Times |-> <<>>]
    /\ shown = <<>> /\ frame_seq = <<>> /\ save = NoChild /\ exitcode = "running"

SpecLabels == InitLabels /\ [][NextDraw]_vars

\* ------------------------------------------- datasets with a color column
ColorDatasets == SeqsUpTo([dt : Times, label : {USA}, x : Values, color : Colors],
                          MaxColorRows)

\* A caller that does what __main__ does with a dataset that has a 'color'
\* column, and passes n_largest to both calls: save_animation(df, frames,
\* icons, ..., n_largest=N) was started in a child process, and
\* show_animation(df, frames, icons, ..., n_largest=N) is about to be called.
InitColors ==
    /\ df \in ColorDatasets
    /\ n_largest \in 0..MaxColorRows
    /\ iconFiles = {}
    /\ columns = Columns
    /\ quicksort_ties \in TieOrders
    /\ pc = "show"
    /\ icons = load_icons(df, iconFiles)
    /\ frames = unique_dt(df)
    /\ save = child_args(df, frames, icons)
    /\ ax = ClearAxes /\ err = "none"
    /\ hist = [t \in Times |-> <<>>]
    /\ shown = <<>> /\ frame_seq = <<>> /\ exitcode = "running"

NextColors == ShowStart \/ ShowStep \/ ShowClose \/ MainJoin \/ SaveStep

SpecColors == InitColors /\ [][NextColors]_vars

\* ======================================================================
\* Properties of the direct calls (SpecDraw)
\* ======================================================================
\* The time key of the frame the caller's Axes shows (when one is drawn).
Drawn(t) == ax.frame = {t}
FrameRows(t) == {i \in DOMAIN df : df[i].dt = t}
Window == ax.bars
InWindow == Range(ax.bars)

\* C1: for every dataset, time key t and rank N >= 1, the window drawn for a
\* frame holds at most N rows, each a row of the dataset (and none twice),
\* each of time key t.
C1_AtMostNRowsOfFrame ==
    \A t \in Times :
        (Drawn(t) /\ n_largest >= 1) =>
            /\ Len(Window) <= n_largest
            /\ \A i \in DOMAIN Window : Window[i] \in DOMAIN df /\ df[Window[i]].dt = t
            /\ Cardinality(InWindow) = Len(Window)

\* A frame of more than N rows was cut to N rows, among rows of another key.
C1_Witness ==
    \E t \in Times :
        /\ Drawn(t) /\ n_largest >= 1
        /\ Len(Window) = n_largest
        /\ Cardinality(FrameRows(t)) > n_largest
        /\ \E i \in DOMAIN df : df[i].dt # t

\* C2: for every dataset, time key and rank N >= 1, the values of the window
\* are non-increasing in rank order, and no row of the frame left out of the
\* window has a value strictly greater than a row inside it.
C2_NonIncreasingAndGreatest ==
    \A t \in Times :
        (Drawn(t) /\ n_largest >= 1) =>
            /\ \A i, j \in DOMAIN Window : i < j => df[Window[i]].x >= df[Window[j]].x
            /\ \A out \in FrameRows(t) \ InWindow :
                   \A w \in InWindow : ~(df[out].x > df[w].x)

\* A window of two rows of different values, and a smaller row left out.
C2_Witness ==
    \E t \in Times :
        /\ Drawn(t) /\ Len(Window) >= 2
        /\ df[Window[1]].x > df[Window[2]].x
        /\ FrameRows(t) \ InWindow # {}

\* C3: two rows of equal value that both appear in the window keep the
\* relative order they have in the dataset.
C3_TiesInDatasetOrder ==
    \A t \in Times :
        (Drawn(t) /\ n_largest >= 1) =>
            \A i, j \in DOMAIN Window :
                (i < j /\ df[Window[i]].x = df[Window[j]].x) => Window[i] < Window[j]

\* C4: for N >= 1 the window has exactly min(N, rows of the frame) rows; a
\* frame of fewer than N rows is returned whole, and no error is raised.
C4_AllRowsOfShortFrame ==
    \A t \in Times :
        (Drawn(t) /\ n_largest >= 1) =>
            /\ err = "none"
            /\ Len(Window) = IF n_largest < Cardinality(FrameRows(t))
                             THEN n_largest ELSE Cardinality(FrameRows(t))
            /\ Cardinality(FrameRows(t)) < n_largest => InWindow = FrameRows(t)

\* A frame of at least one row and fewer than N rows was drawn.
C4_Witness ==
    \E t \in Times :
        /\ Drawn(t) /\ n_largest >= 1
        /\ FrameRows(t) # {}
        /\ Cardinality(FrameRows(t)) < n_largest
        /\ Len(Window) = Cardinality(FrameRows(t))

\* C5: a call with rank depth N < 1 fails with the InvalidRank error instead
\* of producing a window.
C5_InvalidRankRaised ==
    \A t \in Times : (Drawn(t) /\ n_largest < 1) => err = "InvalidRank"

FirstPos(t) == CHOOSE i \in DOMAIN df : df[i].dt = t /\ \A j \in 1..(i - 1) : df[j].dt # t

\* The animate calls of one pass of the display: _init_draw's call for the
\* first frame, then one call for each frame.
DisplayPass == IF frames = <<>> THEN <<>> ELSE <<frames[1]>> \o frames

\* C7, as claimed: on the save path and on the display path alike, one
\* (time key, window) pair is produced for each element of the frame
\* sequence, in its order, no element repeated, and the sequence ends.
C7_OnePairPerElement ==
    /\ Len(shown) <= Len(frames)
    /\ \A i \in DOMAIN shown : shown[i] = frames[i]
    /\ Len(save.written) <= Len(frames)
    /\ \A i \in DOMAIN save.written : save.written[i].frame = frames[i]
    /\ save.pc = "done" => Len(save.written) = Len(frames)

\* C7, amended: the default frame sequence holds each distinct time key of
\* the dataset once, in order of first occurrence; the save path writes
\* exactly one (time key, window) pair for each element, in order, and is
\* complete when it ends; the display path calls animate in passes of
\* "first element (init draw), then every element in order" and starts a
\* new pass after the last element (repeat), so its sequence has no end.
C7_SavedOncePerElementDisplayRepeats ==
    /\ pc # "start" =>
          /\ Range(frames) = {df[i].dt : i \in DOMAIN df}
          /\ \A i, j \in DOMAIN frames :
                 i < j => frames[i] # frames[j] /\ FirstPos(frames[i]) < FirstPos(frames[j])
    /\ Len(save.written) <= Len(frames)
    /\ \A i \in DOMAIN save.written :
           save.written[i] = [frame |-> frames[i],
                              bars |-> top_items(df, frames[i], n_largest)]
    /\ save.pc = "done" => Len(save.written) = Len(frames)
    /\ \A j \in DOMAIN shown : shown[j] = DisplayPass[((j - 1) % Len(DisplayPass)) + 1]

\* The save path wrote two frames and ended; the display is in its second pass.
C7_Witness ==
    /\ save.pc = "done" /\ Len(save.written) = 2
    /\ Len(frames) = 2 /\ Len(shown) > Len(DisplayPass)

C9_SaveFailureFailsRun ==
    (pc = "exit" /\ save.pc = "failed") => exitcode # "0"

\* Whether the wrapped tick text of a label reads back as the label.
ReadsBack(label) == replace_newline(fill(label, WrapWidth)) = label

\* An Axes drawn from dataset d with the icons keys: every bar has its value
\* text, every distinct label of the window its tick, no tick of a label
\* without icon has an image, and every tick of a label with an icon has one.
IconsDrawn(a, d, keys) ==
    LET labels == Unique([i \in DOMAIN a.bars |-> d[a.bars[i]].label])
    IN  /\ \A t \in Times : a.frame = {t} => a.bars = top_items(d, t, n_largest)
        /\ Len(a.texts) = Len(a.bars)
        /\ Len(a.ticks) = Len(labels)
        /\ \A i \in DOMAIN labels :
               /\ labels[i] \notin keys => i \notin a.images
               /\ (labels[i] \in keys /\ ReadsBack(labels[i])) => i \in a.images

\* C10: load_icons keeps exactly the labels of the dataset whose png exists;
\* a frame with a label without icon is drawn whole, only that label without
\* an image; and the frame sequence goes on to its end.
C10_MissingIconNonFatal ==
    /\ pc # "start" =>
          icons = {l \in {df[i].label : i \in DOMAIN df} : l \in iconFiles}
    /\ IconsDrawn(ax, df, icons)
    /\ IconsDrawn(save.ax, df, icons)
    /\ save.pc = "done" => Len(save.written) = Len(save.frames)

\* A frame with one label with an icon and one without was displayed, more
\* frames were drawn after the first, and the save path ended.
C10_Witness ==
    /\ ax.images # {}
    /\ \E i \in DOMAIN ax.ticks : i \notin ax.images
    /\ \E i \in DOMAIN df : df[i].label \notin iconFiles
    /\ Len(shown) >= 2
    /\ save.pc = "done" /\ save.written # <<>>

\* ======================================================================
\* Properties of datasets of any columns (SpecColumns)
\* ======================================================================
\* The exceptions that report a column the dataset does not have.
MissingColumn == {"KeyError: 'dt'", "KeyError: 'label'", "KeyError: 'x'", "ValueError: 'label'"}

LacksColumn == ~(Required \subseteq columns)

NoBars(a) == a.bars = <<>> /\ a.ticks = <<>> /\ a.texts = <<>> /\ a.images = {}

WindowLabels == Unique([i \in DOMAIN ax.bars |-> df[ax.bars[i]].label])

\* C12: in every frame drawn, the text add_icons recovers from a wrapped
\* tick label (line breaks replaced by spaces) is the label of the dataset,
\* so that a tick gets an image exactly when its label is a key of icons.
C12_IconsForExactlyTheKeys ==
    \A t \in Times :
        Drawn(t) =>
            /\ Len(ax.ticks) = Len(WindowLabels)
            /\ \A i \in DOMAIN WindowLabels :
                   /\ replace_newline(ax.ticks[i]) = WindowLabels[i]
                   /\ i \in ax.images <=> WindowLabels[i] \in icons

\* ======================================================================
\* Properties of the bar colors (SpecColors)
\* ======================================================================
\* Every bar of the Axes a has the color of the row of d it shows.
OwnColors(a, d) ==
    /\ Len(a.colors) = Len(a.bars)
    /\ \A i \in DOMAIN a.bars : a.colors[i] = d[a.bars[i]].color

====
